---- MODULE Spec2Model ----
(***************************************************************************)
(* Model of meta_pet_registry/app.py: the Flask registration handler       *)
(* register(), the lookups success() and download_scroll(), and the helpers*)
(* base60_id and sanitize_filename.                                        *)
(*                                                                         *)
(* Strings are sequences of one-character strings.  The file system is     *)
(* three variables: the upload directory (a set of file names), the scroll *)
(* directory (name -> rendered content, as a set of entries) and the       *)
(* registration log (the file's content as a sequence of tokens).          *)
(***************************************************************************)
EXTENDS Integers, Sequences, FiniteSets, TLC

(***************************************************************************)
(* Bounds of the model.                                                    *)
(***************************************************************************)
\* concurrent requests
NumReqs == 2
\* base60_id is called with lengths 0..MaxIdLen in the function harness
MaxIdLen == 2
\* sanitize_filename is called with names of length 0..MaxNameLen
MaxNameLen == 4

(***************************************************************************)
(* Characters.                                                             *)
(***************************************************************************)
Lower == {"a","b","c","d","e","f","g","h","i","j","k","l","m",
          "n","o","p","q","r","s","t","u","v","w","x","y","z"}
Upper == {"A","B","C","D","E","F","G","H","I","J","K","L","M",
          "N","O","P","Q","R","S","T","U","V","W","X","Y","Z"}
Digit == {"0","1","2","3","4","5","6","7","8","9"}
\* what str.strip() removes and \s matches
Whitespace == {" ", "\t", "\n", "\r"}

\* Python's None, and an absent form field: no string of characters equals it
None == <<"<None>">>

SeqToSet(s) == {s[i] : i \in 1..Len(s)}

Rep(c, n) == [i \in 1..n |-> c]

UpperSeq == <<"A","B","C","D","E","F","G","H","I","J","K","L","M",
             "N","O","P","Q","R","S","T","U","V","W","X","Y","Z">>
LowerSeq == <<"a","b","c","d","e","f","g","h","i","j","k","l","m",
             "n","o","p","q","r","s","t","u","v","w","x","y","z">>

\* str.lower(), character by character
lower(s) ==
    [i \in 1..Len(s) |->
        IF s[i] \in Upper
        THEN LowerSeq[CHOOSE k \in 1..Len(UpperSeq) : UpperSeq[k] = s[i]]
        ELSE s[i]]

RECURSIVE lstrip(_, _)
lstrip(s, chars) ==
    IF s # <<>> /\ Head(s) \in chars THEN lstrip(Tail(s), chars) ELSE s

RECURSIVE rstrip(_, _)
rstrip(s, chars) ==
    IF s # <<>> /\ s[Len(s)] \in chars
    THEN rstrip(SubSeq(s, 1, Len(s) - 1), chars) ELSE s

\* str.strip(chars); str.strip() is strip(s, Whitespace)
strip(s, chars) == rstrip(lstrip(s, chars), chars)

(***************************************************************************)
(* Validation helpers (app.py lines 35-52).                                *)
(***************************************************************************)
\* re "^[class]{lo,hi}$" with .match: "$" also matches before one final "\n"
ClassMatch(s, class, lo, hi) ==
    LET body == IF s # <<>> /\ s[Len(s)] = "\n" /\ "\n" \notin class
                THEN {s, SubSeq(s, 1, Len(s) - 1)} ELSE {s}
    IN \E b \in body : /\ Len(b) >= lo
                       /\ Len(b) <= hi
                       /\ \A i \in 1..Len(b) : b[i] \in class

\* [^@\s]
EmailChar(c) == c # "@" /\ c \notin Whitespace

\* EMAIL_RE = ^[^@\s]+@[^@\s]+\.[^@\s]+$
EMAIL_RE(s) ==
    LET body == IF s # <<>> /\ s[Len(s)] = "\n"
                THEN {s, SubSeq(s, 1, Len(s) - 1)} ELSE {s}
    IN \E b \in body : \E i \in 2..Len(b) : \E j \in (i + 2)..(Len(b) - 1) :
          /\ b[i] = "@"
          /\ b[j] = "."
          /\ \A k \in 1..Len(b) : k # i => EmailChar(b[k])

HandleChars == Lower \cup Upper \cup Digit \cup {"_", "."}
HandleMin == 3
HandleMax == 20
\* HANDLE_RE = ^[a-zA-Z0-9_\.]{3,20}$
HANDLE_RE(s) == ClassMatch(s, HandleChars, HandleMin, HandleMax)

\* the right single quotation mark U+2019, the last character of the class
RightQuote == "U+2019"
PetNameChars == Lower \cup Upper \cup Digit \cup {" ", "-", "_", "'", RightQuote}
PetNameMin == 2
PetNameMax == 24
\* PETNAME_RE = ^[A-Za-z0-9 \-_'U+2019]{2,24}$
PETNAME_RE(s) == ClassMatch(s, PetNameChars, PetNameMin, PetNameMax)

MemorySeedMax == 140

ALLOWED_EXT == {<<".","p","n","g">>, <<".","j","p","g">>,
                <<".","j","p","e","g">>, <<".","w","e","b","p">>}

BASE60_ALPHABET ==
    <<"0","1","2","3","4","5","6","7","8","9",
      "A","B","C","D","E","F","G","H","I","J","K","L","M",
      "N","O","P","Q","R","S","T","U","V","W","X","Y","Z",
      "a","b","c","d","e","f","g","h","i","j","k","l","m",
      "n","o","p","q","r","s","t","u","v","w","x">>

\* base60_id, were the loop to run once more
RECURSIVE base60_id_bad_length(_, _)
base60_id_bad_length(length, source) ==
    IF length < 0 THEN {<<>>}
    ELSE {Append(s, c) : s \in base60_id_bad_length(length - 1, source),
                         c \in source}

\* the outcomes of "".join(secrets.choice(BASE60_ALPHABET) for _ in
\* range(length)) when secrets.choice draws among `source`
RECURSIVE base60_id(_, _)
base60_id(length, source) ==
    IF length <= 0 THEN {<<>>}
    ELSE {Append(s, c) : s \in base60_id(length - 1, source), c \in source}

FileChars == Lower \cup Upper \cup Digit \cup {".", "_", "-"}

\* re.sub(r"[^a-zA-Z0-9._-]+", "_", name): each maximal run of other
\* characters becomes one "_"
RECURSIVE sub_runs(_)
sub_runs(name) ==
    IF name = <<>> THEN <<>>
    ELSE IF Head(name) \in FileChars
         THEN <<Head(name)>> \o sub_runs(Tail(name))
         ELSE <<"_">> \o sub_runs(lstrip(Tail(name),
                                         SeqToSet(name) \ FileChars))

\* sanitize_filename without its default name
sanitize_filename_no_default(name) == strip(sub_runs(name), {".", "_", "-"})

sanitize_filename(name) ==
    LET n == strip(sub_runs(name), {".", "_", "-"})
    IN IF n = <<>> THEN <<"u","p","l","o","a","d">> ELSE n

\* PurePath.name: the last component of the path, "" when there is none
RECURSIVE split(_, _)
split(s, sep) ==
    IF \A i \in 1..Len(s) : s[i] # sep THEN <<s>>
    ELSE LET i == CHOOSE k \in 1..Len(s) :
                    s[k] = sep /\ \A m \in 1..(k - 1) : s[m] # sep
         IN <<SubSeq(s, 1, i - 1)>> \o split(SubSeq(s, i + 1, Len(s)), sep)

PathName(path) ==
    LET parts == SelectSeq(split(path, "/"),
                           LAMBDA c : c # <<>> /\ c # <<".">>)
    IN IF parts = <<>> THEN <<>> ELSE parts[Len(parts)]

\* name.rfind("."), 1-based; 0 when there is no dot
rfind_dot(name) ==
    IF \A i \in 1..Len(name) : name[i] # "." THEN 0
    ELSE CHOOSE i \in 1..Len(name) :
            name[i] = "." /\ \A m \in (i + 1)..Len(name) : name[m] # "."

\* PurePath.suffix: from the last dot, unless the name starts or ends with it
PathSuffix(path) ==
    LET name == PathName(path)
        i == rfind_dot(name)
    IN IF 1 < i /\ i < Len(name) THEN SubSeq(name, i, Len(name)) ELSE <<>>

\* PurePath.stem
PathStem(path) ==
    LET name == PathName(path)
        i == rfind_dot(name)
    IN IF 1 < i /\ i < Len(name) THEN SubSeq(name, 1, i - 1) ELSE name

(***************************************************************************)
(* register(): the validation (app.py lines 151-180).                      *)
(***************************************************************************)
\* (request.form.get(k) or "").strip()
FormField(v) == strip(IF v = None THEN <<>> ELSE v, Whitespace)

MSG_EMAIL == "Please enter a valid email address."
MSG_HANDLE == "Handle must be 3-20 chars: letters, numbers, underscore, dot."
MSG_PETNAME == "Pet name must be 2-24 chars (letters/numbers/spaces/-/_/' allowed)."
MSG_MEMORY == "Memory seed must be 140 characters or less."
MSG_AVATAR == "Avatar must be PNG/JPG/WEBP."

\* avatar and avatar.filename
HasAvatar(form) == form.avatar # None /\ form.avatar # <<>>

\* the errors list, were the validation to stop at the first violated rule
validate_errors_fail_fast(form) ==
    LET owner_email == FormField(form.owner_email)
        owner_handle == FormField(form.owner_handle)
        pet_name == FormField(form.pet_name)
        memory_seed == FormField(form.memory_seed)
    IN IF owner_email = <<>> \/ ~EMAIL_RE(owner_email) THEN <<MSG_EMAIL>>
       ELSE IF owner_handle # <<>> /\ ~HANDLE_RE(owner_handle)
            THEN <<MSG_HANDLE>>
       ELSE IF pet_name = <<>> \/ ~PETNAME_RE(pet_name) THEN <<MSG_PETNAME>>
       ELSE IF memory_seed # <<>> /\ Len(memory_seed) > MemorySeedMax
            THEN <<MSG_MEMORY>>
       ELSE IF HasAvatar(form)
               /\ lower(PathSuffix(form.avatar)) \notin ALLOWED_EXT
            THEN <<MSG_AVATAR>>
       ELSE <<>>

\* the errors list as the five if statements build it
validate_errors(form) ==
    LET owner_email == FormField(form.owner_email)
        owner_handle == FormField(form.owner_handle)
        pet_name == FormField(form.pet_name)
        memory_seed == FormField(form.memory_seed)
        e1 == IF owner_email = <<>> \/ ~EMAIL_RE(owner_email)
              THEN <<MSG_EMAIL>> ELSE <<>>
        e2 == IF owner_handle # <<>> /\ ~HANDLE_RE(owner_handle)
              THEN <<MSG_HANDLE>> ELSE <<>>
        e3 == IF pet_name = <<>> \/ ~PETNAME_RE(pet_name)
              THEN <<MSG_PETNAME>> ELSE <<>>
        e4 == IF memory_seed # <<>> /\ Len(memory_seed) > MemorySeedMax
              THEN <<MSG_MEMORY>> ELSE <<>>
        e5 == IF HasAvatar(form)
                 /\ lower(PathSuffix(form.avatar)) \notin ALLOWED_EXT
              THEN <<MSG_AVATAR>> ELSE <<>>
    IN e1 \o e2 \o e3 \o e4 \o e5

AvatarSuffixLen == 8
PetIdLen == 12

\* avatar_filename = f"{safe}_{base60_id(8)}{ext}", None without an avatar
\* or with a refused extension; `rnd` is what base60_id(8) returned
avatar_filename_of(form, rnd) ==
    IF HasAvatar(form) /\ lower(PathSuffix(form.avatar)) \in ALLOWED_EXT
    THEN sanitize_filename(PathStem(form.avatar)) \o <<"_">> \o rnd
            \o lower(PathSuffix(form.avatar))
    ELSE None

(***************************************************************************)
(* The Registration record and its line in registrations.jsonl             *)
(* (app.py lines 55-63, 191-203).                                          *)
(***************************************************************************)
\* field order of the dataclass, which asdict and json.dumps keep
RegistrationFields ==
    <<"pet_id", "created_at_utc", "owner_email", "owner_handle",
      "pet_name", "memory_seed", "avatar_filename">>

NoReg == [f \in SeqToSet(RegistrationFields) |-> None]

\* Registration(...): owner_handle or None, memory_seed or None
Registration(pet_id, created_at, v) ==
    [pet_id |-> pet_id,
     created_at_utc |-> created_at,
     owner_email |-> v.owner_email,
     owner_handle |-> IF v.owner_handle = <<>> THEN None ELSE v.owner_handle,
     pet_name |-> v.pet_name,
     memory_seed |-> IF v.memory_seed = <<>> THEN None ELSE v.memory_seed,
     avatar_filename |-> v.avatar_filename]

NEWLINE == <<"\n">>

DigitSeq == <<"0","1","2","3","4","5","6","7","8","9">>

\* datetime.now(timezone.utc).replace(microsecond=0).isoformat() for the
\* clock reading of `seconds` whole seconds
isoformat(seconds) == <<"1970-01-01T00:00:0", DigitSeq[seconds + 1], "+00:00">>

\* json.dumps of one value: None is written null, anything else quoted
json_value(x) == IF x = None THEN <<"null">> ELSE <<"str", x>>

\* json.dumps(asdict(reg), ensure_ascii=False) + "\n", as the tokens of the
\* line: one <<key, value>> per field, then the newline
json_line(reg) ==
    [i \in 1..Len(RegistrationFields) |->
        <<RegistrationFields[i], json_value(reg[RegistrationFields[i]])>>]
    \o <<NEWLINE>>

\* the lines of the file read back: what precedes each newline; a tail
\* without newline is no line yet
RECURSIVE lines_of(_)
lines_of(content) ==
    IF \A i \in 1..Len(content) : content[i] # NEWLINE THEN <<>>
    ELSE LET i == CHOOSE k \in 1..Len(content) :
                    content[k] = NEWLINE
                    /\ \A m \in 1..(k - 1) : content[m] # NEWLINE
         IN <<SubSeq(content, 1, i - 1)>>
               \o lines_of(SubSeq(content, i + 1, Len(content)))

Invalid == [f \in SeqToSet(RegistrationFields) |-> <<"<invalid>">>]

\* json.loads of one line: a record when the line is the seven fields of one
\* object, Invalid when it is not one JSON document
json_loads(line) ==
    IF /\ Len(line) = Len(RegistrationFields)
       /\ \A i \in 1..Len(line) : line[i][1] = RegistrationFields[i]
    THEN [f \in SeqToSet(RegistrationFields) |->
            LET i == CHOOSE k \in 1..Len(line) : line[k][1] = f
            IN IF line[i][2] = <<"null">> THEN None ELSE line[i][2][2]]
    ELSE Invalid

\* pdf_path = SCROLLS_DIR / f"{pet_id}.pdf"
pdf_path(pet_id) == pet_id \o <<".","p","d","f">>

\* what generate_scroll_pdf draws of the registration
scroll_fields(reg) ==
    [pet_id |-> reg.pet_id,
     pet_name |-> reg.pet_name,
     owner_handle |-> IF reg.owner_handle = None THEN <<"-">>
                      ELSE reg.owner_handle,
     issued |-> reg.created_at_utc,
     email_hash |-> <<"sha256[:16]", reg.owner_email>>,
     memory_seed |-> IF reg.memory_seed = None THEN <<"-">>
                     ELSE reg.memory_seed]

(***************************************************************************)
(* State.                                                                  *)
(***************************************************************************)
VARIABLES
    pc,          \* where each request stands
    validated,   \* register(): the stripped fields and avatar_filename
    errors,      \* register(): the errors list
    reg,         \* register(): the Registration, once created
    unwritten,   \* register(): what of the line a short write left to write
    status,      \* the HTTP status of the answer, 0 while there is none
    location,    \* register(): the pet_id the redirect names
    asked,       \* success(), download_scroll(): the pet_id of the URL
    uploads,     \* UPLOADS_DIR: the names of the files in it
    scrolls,     \* SCROLLS_DIR: its files, [name, content]
    registry,    \* REGISTRY_FILE: its content
    fn, arg, ret \* the function harness: a helper, its argument, its result

vars == <<pc, validated, errors, reg, unwritten, status, location, asked,
          uploads, scrolls, registry, fn, arg, ret>>

appVars == <<pc, validated, errors, reg, unwritten, status, location, asked,
             uploads, scrolls, registry>>

\* the requests, numbered in the order they arrive; their handlers run
\* concurrently (the development server is threaded)
Reqs == 1..NumReqs

\* the characters the random source yields in a request of the model
RandomChars == {"0", "x"}

\* one call of base60_id in a request: every draw of the call yields the
\* same character, any of RandomChars
request_id(length) == UNION {base60_id(length, {c}) : c \in RandomChars}

\* the clock readings of the model, in whole seconds
ClockReadings == {0}

\* where a short write of the model stops: after this many tokens of the line
ShortWrites == {3}

NoLocals == [owner_email |-> None, owner_handle |-> None, pet_name |-> None,
             memory_seed |-> None, avatar_filename |-> None]

(***************************************************************************)
(* The forms the requests submit.                                          *)
(***************************************************************************)
S_email == <<"a","@","b",".","c">>
S_milo == <<"M","i","l","o">>

\* spec scenario 1: no handle, no memory, no avatar
PlainForm ==
    [owner_email |-> S_email, owner_handle |-> None, pet_name |-> S_milo,
     memory_seed |-> <<>>, avatar |-> None]

\* every field given and valid, each padded with blanks
FullForm ==
    [owner_email |-> <<" ">> \o S_email \o <<" ">>,
     owner_handle |-> <<"n","e","o"," ">>,
     pet_name |-> <<" ">> \o S_milo,
     memory_seed |-> <<"h","i","\n">>,
     avatar |-> <<"m","y"," ","p","i","c",".","P","N","G">>]

\* spec scenario 2: the pet name too short, beside an avatar that is accepted
ShortPetForm == [FullForm EXCEPT !.pet_name = <<"M">>]

\* spec scenario 3: an avatar named photo.exe
ExeAvatarForm ==
    [PlainForm EXCEPT !.avatar = <<"p","h","o","t","o",".","e","x","e">>]

AppForms == {PlainForm, FullForm, ShortPetForm, ExeAvatarForm}

\* what a request may submit: any of AppForms, or the harness's form
SubmittedForms == IF fn = "register" THEN {arg} ELSE AppForms

AppInit ==
    /\ pc = [r \in Reqs |-> "start"]
    /\ validated = [r \in Reqs |-> NoLocals]
    /\ errors = [r \in Reqs |-> <<>>]
    /\ reg = [r \in Reqs |-> NoReg]
    /\ unwritten = [r \in Reqs |-> <<>>]
    /\ status = [r \in Reqs |-> 0]
    /\ location = [r \in Reqs |-> None]
    /\ asked = [r \in Reqs |-> None]
    /\ uploads = {}
    /\ scrolls = {}
    /\ registry = <<>>

\* request r arrives: the requests before it have
Arrives(r) == pc[r] = "start" /\ \A q \in 1..(r - 1) : pc[q] # "start"

(***************************************************************************)
(* register() (app.py lines 149-209), one action per step that touches the *)
(* file system; the steps of concurrent requests interleave.               *)
(***************************************************************************)
\* the same, were the avatar saved as soon as it is named, before the
\* errors are looked at
Validate_saves_avatar_first(r) ==
    /\ fn = "app" \/ (fn = "register" /\ r = 1)
    /\ Arrives(r)
    /\ \E form \in SubmittedForms, rnd \in request_id(AvatarSuffixLen) :
          LET errs == validate_errors(form)
              name == avatar_filename_of(form, rnd)
          IN /\ errors' = [errors EXCEPT ![r] = errs]
             /\ uploads' = IF name # None THEN uploads \cup {name} ELSE uploads
             /\ IF errs # <<>>
                THEN /\ pc' = [pc EXCEPT ![r] = "rejected"]
                     /\ status' = [status EXCEPT ![r] = 400]
                     /\ UNCHANGED validated
                ELSE /\ validated' = [validated EXCEPT ![r] =
                          [owner_email |-> FormField(form.owner_email),
                           owner_handle |-> FormField(form.owner_handle),
                           pet_name |-> FormField(form.pet_name),
                           memory_seed |-> FormField(form.memory_seed),
                           avatar_filename |-> name]]
                     /\ pc' = [pc EXCEPT ![r] = "append"]
                     /\ UNCHANGED status
    /\ UNCHANGED <<reg, unwritten, location, asked, scrolls,
                   registry, fn, arg, ret>>

\* lines 151-180: read and strip the fields, validate, name the avatar;
\* with errors answer the form again, status 400
Validate(r) ==
    /\ fn = "app" \/ (fn = "register" /\ r = 1)
    /\ Arrives(r)
    /\ \E form \in SubmittedForms, rnd \in request_id(AvatarSuffixLen) :
          LET errs == validate_errors(form)
          IN /\ errors' = [errors EXCEPT ![r] = errs]
             /\ IF errs # <<>>
                THEN /\ pc' = [pc EXCEPT ![r] = "rejected"]
                     /\ status' = [status EXCEPT ![r] = 400]
                     /\ UNCHANGED validated
                ELSE /\ validated' = [validated EXCEPT ![r] =
                          [owner_email |-> FormField(form.owner_email),
                           owner_handle |-> FormField(form.owner_handle),
                           pet_name |-> FormField(form.pet_name),
                           memory_seed |-> FormField(form.memory_seed),
                           avatar_filename |-> avatar_filename_of(form, rnd)]]
                     /\ pc' = [pc EXCEPT ![r] =
                          IF avatar_filename_of(form, rnd) # None
                          THEN "save" ELSE "append"]
                     /\ UNCHANGED status
    /\ UNCHANGED <<reg, unwritten, location, asked, uploads, scrolls,
                   registry, fn, arg, ret>>

\* an exception leaves register(): Flask answers 500, the locals are gone
Raise(r, where) ==
    /\ pc' = [pc EXCEPT ![r] = where]
    /\ status' = [status EXCEPT ![r] = 500]
    /\ validated' = [validated EXCEPT ![r] = NoLocals]
    /\ reg' = [reg EXCEPT ![r] = NoReg]
    /\ unwritten' = [unwritten EXCEPT ![r] = <<>>]

\* the same, were the avatar not saved
SaveAvatar_skipped(r) ==
    /\ fn = "app"
    /\ pc[r] = "save"
    /\ pc' = [pc EXCEPT ![r] = "append"]
    /\ UNCHANGED <<validated, errors, reg, unwritten, status, location, asked,
                   uploads, scrolls, registry, fn, arg, ret>>

\* lines 183-185: avatar.save(UPLOADS_DIR / avatar_filename)
SaveAvatar(r) ==
    /\ fn = "app"
    /\ pc[r] = "save"
    /\ uploads' = uploads \cup {validated[r].avatar_filename}
    /\ pc' = [pc EXCEPT ![r] = "append"]
    /\ UNCHANGED <<validated, errors, reg, unwritten, status, location, asked,
                   scrolls, registry, fn, arg, ret>>

\* avatar.save raises: before the file is created, or while it is written
SaveAvatarFails(r) ==
    /\ fn = "app"
    /\ pc[r] = "save"
    /\ \E created \in BOOLEAN :
          uploads' = IF created
                     THEN uploads \cup {validated[r].avatar_filename}
                     ELSE uploads
    /\ Raise(r, "failed_save")
    /\ UNCHANGED <<errors, location, asked, scrolls, registry, fn, arg, ret>>

\* lines 188-199: pet_id = base60_id(12), created_at from the clock, and
\* the Registration of the validated fields
new_registration(r) ==
    {Registration(id, isoformat(t), validated[r]) :
        id \in request_id(PetIdLen), t \in ClockReadings}

\* lines 202-203: open REGISTRY_FILE for append and write the line. The line
\* reaches the file when the buffered writer is flushed at the end of the
\* with block; here the operating system takes it in one write
AppendRecord(r) ==
    /\ fn = "app"
    /\ pc[r] = "append"
    /\ \E new \in new_registration(r) :
          /\ reg' = [reg EXCEPT ![r] = new]
          /\ registry' = registry \o json_line(new)
    /\ pc' = [pc EXCEPT ![r] = "render"]
    /\ UNCHANGED <<validated, errors, unwritten, status, location, asked,
                   uploads, scrolls, fn, arg, ret>>

\* lines 202-203, a short write: the operating system takes only the first
\* k tokens of the line, and the writer has to write the rest again. No lock
\* is held on the file meanwhile
AppendShort(r) ==
    /\ fn = "app"
    /\ pc[r] = "append"
    /\ \E new \in new_registration(r), k \in ShortWrites :
          /\ reg' = [reg EXCEPT ![r] = new]
          /\ registry' = registry \o SubSeq(json_line(new), 1, k)
          /\ unwritten' = [unwritten EXCEPT ![r] =
                SubSeq(json_line(new), k + 1, Len(json_line(new)))]
    /\ pc' = [pc EXCEPT ![r] = "flush"]
    /\ UNCHANGED <<validated, errors, status, location, asked, uploads,
                   scrolls, fn, arg, ret>>

\* lines 202-203: open or write raises before anything is written (no
\* permission, disk full)
AppendFails(r) ==
    /\ fn = "app"
    /\ pc[r] = "append"
    /\ Raise(r, "failed_append")
    /\ UNCHANGED <<errors, location, asked, uploads, scrolls, registry,
                   fn, arg, ret>>

\* lines 202-203: the rest of a short write reaches the file
FlushRest(r) ==
    /\ fn = "app"
    /\ pc[r] = "flush"
    /\ registry' = registry \o unwritten[r]
    /\ unwritten' = [unwritten EXCEPT ![r] = <<>>]
    /\ pc' = [pc EXCEPT ![r] = "render"]
    /\ UNCHANGED <<validated, errors, reg, status, location, asked, uploads,
                   scrolls, fn, arg, ret>>

\* lines 202-203: writing the rest raises (disk full); what was written stays
FlushFails(r) ==
    /\ fn = "app"
    /\ pc[r] = "flush"
    /\ Raise(r, "failed_append")
    /\ UNCHANGED <<errors, location, asked, uploads, scrolls, registry,
                   fn, arg, ret>>

\* generate_scroll_pdf (lines 66-141): c.save() writes the one file at
\* pdf_path, over a file already there
generate_scroll_pdf(r) ==
    {d \in scrolls : d.name # pdf_path(reg[r].pet_id)}
        \cup {[name |-> pdf_path(reg[r].pet_id),
               content |-> scroll_fields(reg[r])]}

\* lines 206-209: render the scroll, then redirect to success, status 303
RenderScroll(r) ==
    /\ fn = "app"
    /\ pc[r] = "render"
    /\ scrolls' = generate_scroll_pdf(r)
    /\ pc' = [pc EXCEPT ![r] = "redirected"]
    /\ status' = [status EXCEPT ![r] = 303]
    /\ location' = [location EXCEPT ![r] = reg[r].pet_id]
    /\ UNCHANGED <<validated, errors, reg, unwritten, asked, uploads,
                   registry, fn, arg, ret>>

\* the same, were the record taken out of the log again when rendering fails
RenderFails_rollback(r) ==
    /\ fn = "app"
    /\ pc[r] = "render"
    /\ registry' = SubSeq(registry, 1,
                          Len(registry) - Len(json_line(reg[r])))
    /\ Raise(r, "failed_render")
    /\ UNCHANGED <<errors, location, asked, uploads, scrolls, fn, arg, ret>>

\* lines 206-207: generate_scroll_pdf raises; nothing is undone
RenderFails(r) ==
    /\ fn = "app"
    /\ pc[r] = "render"
    /\ Raise(r, "failed_render")
    /\ UNCHANGED <<errors, location, asked, uploads, scrolls, registry,
                   fn, arg, ret>>

(***************************************************************************)
(* success() and download_scroll() (app.py lines 212-225).                 *)
(***************************************************************************)
\* an identifier no request of the model draws
UnusedId == Rep("7", PetIdLen)

LookupIds == request_id(PetIdLen) \cup {UnusedId}

\* pdf_path.exists()
exists(name) == \E d \in scrolls : d.name = name

\* the same, were the path looked up not the path rendered to
lookup_status_wrong_path(pet_id) == IF ~exists(pet_id) THEN 404 ELSE 200

\* abort(404) unless the scroll exists, else the page or the file
lookup_status(pet_id) == IF ~exists(pdf_path(pet_id)) THEN 404 ELSE 200

\* GET /success/<pet_id>
success(r, pet_id) ==
    /\ fn = "app"
    /\ Arrives(r)
    /\ asked' = [asked EXCEPT ![r] = pet_id]
    /\ status' = [status EXCEPT ![r] = lookup_status(pet_id)]
    /\ pc' = [pc EXCEPT ![r] = "success"]
    /\ UNCHANGED <<validated, errors, reg, unwritten, location, uploads,
                   scrolls, registry, fn, arg, ret>>

\* GET /scroll/<pet_id>.pdf
download_scroll(r, pet_id) ==
    /\ fn = "app"
    /\ Arrives(r)
    /\ asked' = [asked EXCEPT ![r] = pet_id]
    /\ status' = [status EXCEPT ![r] = lookup_status(pet_id)]
    /\ pc' = [pc EXCEPT ![r] = "download_scroll"]
    /\ UNCHANGED <<validated, errors, reg, unwritten, location, uploads,
                   scrolls, registry, fn, arg, ret>>

(***************************************************************************)
(* The function harness: sanitize_filename and base60_id called on their   *)
(* own, and the validation of register() on a wider set of forms.          *)
(***************************************************************************)
NameChars == {"a", "7", ".", "-", "_", "!", " "}

Names == UNION {[1..n -> NameChars] : n \in 0..MaxNameLen}

Str_ab == <<"a","b">>
Str_photo == <<"p","h","o","t","o">>

HarnessForms ==
    [owner_email : {None, <<>>, S_email,
                    <<" ">> \o S_email \o <<"\n">>,
                    <<"a","@","b">>,
                    <<"a"," ","b","@","c",".","d">>,
                    <<"a","@","b","@","c",".","d">>,
                    <<"a","@",".",".",".">>},
     owner_handle : {None, Str_ab, Str_ab \o <<"c">>,
                     Rep("h", HandleMax), Rep("h", HandleMax + 1),
                     <<" ","a",".","b","_"," ">>, <<"a","-","b">>},
     pet_name : {None, <<"M">>, <<"M","i">>,
                 Rep("p", PetNameMax), Rep("p", PetNameMax + 1),
                 <<"M","i"," ","l","o">>, <<"M","i","!","o">>,
                 <<"O","'","N">>, <<"O",RightQuote,"N">>},
     memory_seed : {<<>>, <<" "," ">>, Rep("m", MemorySeedMax),
                    Rep("m", MemorySeedMax) \o <<" ">>,
                    Rep("m", MemorySeedMax + 1)},
     avatar : {None, <<>>, Str_photo \o <<".","p","n","g">>,
               Str_photo \o <<".","P","N","G">>,
               Str_photo \o <<".","e","x","e">>,
               Str_photo, <<".","p","n","g">>,
               <<"d","/","x",".","j","p","e","g">>,
               <<"a"," ","b",".","w","e","b","p">>,
               <<".",".","j","p","g">>}]

HarnessInit ==
    /\ \/ fn = "sanitize_filename" /\ arg \in Names
       \/ fn = "base60_id" /\ arg \in 0..MaxIdLen
       \/ fn = "register" /\ arg \in HarnessForms
    /\ ret = None

call_sanitize_filename ==
    /\ fn = "sanitize_filename"
    /\ ret = None
    /\ ret' = sanitize_filename(arg)
    /\ UNCHANGED <<appVars, fn, arg>>

call_base60_id ==
    /\ fn = "base60_id"
    /\ ret = None
    /\ ret' \in base60_id(arg, SeqToSet(BASE60_ALPHABET))
    /\ ret' # None
    /\ UNCHANGED <<appVars, fn, arg>>

(***************************************************************************)
(* The specification.                                                      *)
(***************************************************************************)
Init ==
    /\ AppInit
    /\ \/ fn = "app" /\ arg = None /\ ret = None
       \/ HarnessInit

Next ==
    \/ \E r \in Reqs :
          \/ Validate(r)
          \/ SaveAvatar(r)
          \/ SaveAvatarFails(r)
          \/ AppendRecord(r)
          \/ AppendShort(r)
          \/ AppendFails(r)
          \/ FlushRest(r)
          \/ FlushFails(r)
          \/ RenderScroll(r)
          \/ RenderFails(r)
    \/ \E r \in Reqs, pet_id \in LookupIds :
          \/ success(r, pet_id)
          \/ download_scroll(r, pet_id)
    \/ call_sanitize_filename
    \/ call_base60_id

Spec == Init /\ [][Next]_vars

(***************************************************************************)
(* Reading the state.                                                      *)
(***************************************************************************)
\* the lines of the log
Lines == lines_of(registry)

\* the log read back line by line
ReadLog == [i \in 1..Len(Lines) |-> json_loads(Lines[i])]

\* the records of the log: its lines that are one JSON document
Records == {ReadLog[i] : i \in 1..Len(ReadLog)} \ {Invalid}

IsPrefix(s, t) == Len(s) <= Len(t) /\ \A i \in 1..Len(s) : s[i] = t[i]

\* the rules of the validation, on the stripped fields
EmailRuleViolated(form) ==
    LET v == FormField(form.owner_email) IN ~(v # <<>> /\ EMAIL_RE(v))

HandleRuleViolated(form) ==
    LET v == FormField(form.owner_handle)
    IN v # <<>> /\ ~(/\ Len(v) \in HandleMin..HandleMax
                     /\ \A i \in 1..Len(v) : v[i] \in HandleChars)

PetNameRuleViolated(form) ==
    LET v == FormField(form.pet_name)
    IN ~(/\ Len(v) \in PetNameMin..PetNameMax
         /\ \A i \in 1..Len(v) : v[i] \in PetNameChars)

MemoryRuleViolated(form) ==
    LET v == FormField(form.memory_seed) IN Len(v) > MemorySeedMax

AvatarRuleViolated(form) ==
    /\ form.avatar # None
    /\ form.avatar # <<>>
    /\ lower(PathSuffix(form.avatar)) \notin ALLOWED_EXT

\* the messages of the violated rules
ViolatedRules(form) ==
    {m \in {MSG_EMAIL, MSG_HANDLE, MSG_PETNAME, MSG_MEMORY, MSG_AVATAR} :
        \/ m = MSG_EMAIL /\ EmailRuleViolated(form)
        \/ m = MSG_HANDLE /\ HandleRuleViolated(form)
        \/ m = MSG_PETNAME /\ PetNameRuleViolated(form)
        \/ m = MSG_MEMORY /\ MemoryRuleViolated(form)
        \/ m = MSG_AVATAR /\ AvatarRuleViolated(form)}

Final == {"rejected", "redirected", "failed_save", "failed_append",
          "failed_render", "success", "download_scroll"}

(***************************************************************************)
(* The claims.                                                             *)
(***************************************************************************)
\* C1: a register request that fails validation has no persistent side
\* effect. The step that rejects it leaves the upload directory, the
\* registration log and the scroll directory as they were and answers 400
\* with no redirect; a rejected request has created no Registration; and a
\* form that violates at least one rule, whatever the combination, also one
\* whose avatar extension is accepted, is rejected.
RejectionStep(r) == pc[r] = "start" /\ pc'[r] = "rejected"

C1_RejectedState ==
    /\ \A r \in Reqs :
          pc[r] = "rejected" =>
             /\ status[r] = 400
             /\ errors[r] # <<>>
             /\ location[r] = None
             /\ reg[r] = NoReg
             /\ validated[r] = NoLocals
    /\ (fn = "register" /\ pc[1] # "start") =>
          /\ (ViolatedRules(arg) # {}) <=> (pc[1] = "rejected")
          /\ uploads = {} /\ registry = <<>> /\ scrolls = {}

C1_NoSideEffectOnRejection ==
    /\ []C1_RejectedState
    /\ [][\A r \in Reqs :
             RejectionStep(r) =>
                /\ uploads' = uploads
                /\ registry' = registry
                /\ scrolls' = scrolls
                /\ status'[r] = 400
                /\ location'[r] = None]_vars

\* a request is rejected for its pet name, its avatar extension accepted,
\* beside a request that has saved an avatar and appended its record
C1_Witness ==
    /\ fn = "app"
    /\ \E r \in Reqs : pc[r] = "rejected" /\ errors[r] = <<MSG_PETNAME>>
    /\ uploads # {}
    /\ Records # {}

\* C2: the validation is not fail-fast. The number of messages in the
\* errors list is the number of violated rules, the messages are those of
\* the violated rules in the order of the rules, and the request is rejected
\* (status 400) exactly when the list is not empty.
C2_ErrorsCountViolatedRules ==
    (fn = "register" /\ pc[1] # "start") =>
       /\ Len(errors[1]) = Cardinality(ViolatedRules(arg))
       /\ SeqToSet(errors[1]) = ViolatedRules(arg)
       /\ (pc[1] = "rejected") <=> (errors[1] # <<>>)
       /\ (status[1] = 400) <=> (errors[1] # <<>>)

\* a form that violates the five rules got five messages
C2_Witness ==
    /\ fn = "register"
    /\ pc[1] = "rejected"
    /\ Cardinality(ViolatedRules(arg)) = 5
    /\ Len(errors[1]) = 5

\* C3: every document in the scroll directory has a record with the same
\* identifier in the registration log.
C3_ScrollHasRecord ==
    \A d \in scrolls : \E rec \in Records : pdf_path(rec.pet_id) = d.name

\* C4: no step reverts an earlier one. The log only grows: what it holds
\* stays, so every line of it, and with the line the record read back from
\* it, stays the same at the same position. The
\* step at which rendering fails answers 500 with no redirect and leaves the
\* log, with what the request appended to it, and the scroll directory as
\* they were: no document is written for it.
RenderFailureStep(r) == pc[r] = "render" /\ pc'[r] = "failed_render"

C5_RoundTrip ==
    /\ \A r \in Reqs :
          pc[r] \in {"render", "redirected"} =>
             \E i \in 1..Len(ReadLog) : ReadLog[i] = reg[r]
    /\ \A i \in 1..Len(ReadLog) : ReadLog[i] # Invalid

\* C6: no two records of the registration log carry the same pet_id.
C6_UniquePetId ==
    \A i, j \in 1..Len(ReadLog) :
       (i # j /\ ReadLog[i] # Invalid /\ ReadLog[j] # Invalid)
          => ReadLog[i].pet_id # ReadLog[j].pet_id

\* C7: after a register request has answered with the redirect for an
\* identifier, the document of that identifier exists, in that state and
\* in every later one, so no lookup of it answers 404. A lookup answers
\* 404 exactly when no document exists at the path of the identifier it
\* asks for, and 200 otherwise; a lookup of an identifier no registration
\* has used answers 404.
LookupStep(r) == pc[r] = "start" /\ pc'[r] \in {"success", "download_scroll"}

C7_RedirectedState ==
    /\ \A r \in Reqs : pc[r] = "redirected" =>
          status[r] = 303 /\ exists(pdf_path(location[r]))
    /\ \A r \in Reqs : pc[r] \in {"success", "download_scroll"} =>
          /\ status[r] \in {200, 404}
          /\ status[r] = 200 => exists(pdf_path(asked[r]))
          /\ asked[r] = UnusedId => status[r] = 404

C7_DocumentAvailable ==
    /\ []C7_RedirectedState
    /\ [][\A r \in Reqs :
             LookupStep(r) =>
                /\ (status'[r] = 404) <=> ~exists(pdf_path(asked'[r]))
                /\ (status'[r] = 200) <=> exists(pdf_path(asked'[r]))
                /\ \A q \in Reqs :
                      (pc[q] = "redirected" /\ location[q] = asked'[r])
                         => status'[r] = 200]_vars

\* a lookup of the identifier a redirect named has answered 200
C7_Witness ==
    \E q, r \in Reqs :
       /\ pc[q] = "redirected"
       /\ pc[r] \in {"success", "download_scroll"}
       /\ asked[r] = location[q]
       /\ status[r] = 200

\* C8: every record of the log whose avatar_filename is not null names a
\* file of the upload directory. The avatar is saved before the append:
\* a step that writes to the log is taken by a request whose avatar, if it
\* has one, is in the upload directory already. When saving the avatar
\* fails nothing is appended. No file leaves the upload directory, also
\* not when the append or the rendering fails later.
C8_RecordsAvatarSaved ==
    \A rec \in Records :
       rec.avatar_filename # None => rec.avatar_filename \in uploads

C8_AvatarBeforeAppend ==
    /\ []C8_RecordsAvatarSaved
    /\ [][/\ uploads \subseteq uploads'
          /\ \A r \in Reqs :
                /\ (registry' # registry /\ pc[r] \in {"append", "flush"}
                       /\ pc'[r] # pc[r]
                       /\ validated[r].avatar_filename # None)
                      => validated[r].avatar_filename \in uploads
                /\ (pc[r] = "save" /\ pc'[r] = "failed_save")
                      => registry' = registry /\ scrolls' = scrolls]_vars

\* a record with an avatar is in the log, and an avatar saved by a request
\* that failed later is still in the upload directory, named by no record
C8_Witness ==
    /\ \E rec \in Records : rec.avatar_filename \in uploads
    /\ \E r \in Reqs : pc[r] \in {"failed_append", "failed_render"}
    /\ \E f \in uploads : \A rec \in Records : rec.avatar_filename # f

\* C9: sanitize_filename returns, for any name, a string that is not empty
\* and holds only letters, digits, dot, hyphen and underscore; unless it is
\* the default name it neither starts nor ends with a dot, a hyphen or an
\* underscore.
DefaultName == <<"u","p","l","o","a","d">>

C9_SanitizedName ==
    (fn = "sanitize_filename" /\ ret # None) =>
       /\ ret # <<>>
       /\ \A i \in 1..Len(ret) : ret[i] \in FileChars
       /\ ret # DefaultName =>
             /\ ret[1] \notin {".", "-", "_"}
             /\ ret[Len(ret)] \notin {".", "-", "_"}

\* a name made of refused characters and punctuation got the default name
C9_Witness ==
    /\ fn = "sanitize_filename"
    /\ arg = <<"!", ".", " ", "_">>
    /\ ret = DefaultName

\* C10: base60_id(length) returns a string of exactly that length whose
\* every character is of BASE60_ALPHABET; the pet_id of every record of the
\* log has length 12, and every file of the upload directory is named with
\* a random suffix of length 8 between an underscore and the extension.
IsBase60(s) == \A i \in 1..Len(s) : s[i] \in SeqToSet(BASE60_ALPHABET)

\* the random suffix of a stored name <safe>_<suffix><ext>
StoredSuffix(name) ==
    SubSeq(name, rfind_dot(name) - AvatarSuffixLen, rfind_dot(name) - 1)

C10_IdShape ==
    /\ (fn = "base60_id" /\ ret # None) => Len(ret) = arg /\ IsBase60(ret)
    /\ \A rec \in Records : Len(rec.pet_id) = PetIdLen /\ IsBase60(rec.pet_id)
    /\ \A r \in Reqs : pc[r] = "redirected" =>
          Len(location[r]) = PetIdLen /\ IsBase60(location[r])
    /\ \A f \in uploads :
          /\ rfind_dot(f) > AvatarSuffixLen + 1
          /\ SubSeq(f, rfind_dot(f), Len(f)) \in ALLOWED_EXT
          /\ Len(StoredSuffix(f)) = AvatarSuffixLen
          /\ IsBase60(StoredSuffix(f))
          /\ f[rfind_dot(f) - AvatarSuffixLen - 1] = "_"

\* a record with a pet_id and a stored avatar is in the log
C10_Witness ==
    \E rec \in Records :
       /\ rec.avatar_filename \in uploads
       /\ Len(rec.pet_id) = PetIdLen
       /\ Len(StoredSuffix(rec.avatar_filename)) = AvatarSuffixLen

====
